---- MODULE Spec2Model ----
(***************************************************************************)
(* Model of app.py (Lumos to-do tracker): the tasks table, the store       *)
(* helpers (add_task, update_task, delete_task, fetch_tasks), the derived  *)
(* metrics (calc_progress, calc_streak, auto_categorize) and the page      *)
(* handlers of the script, which re-executes on every interaction.         *)
(*                                                                         *)
(* Texts are sequences of one-character strings, so that strip(), lower()  *)
(* and the substring test are computed, not assumed.  A nullable column    *)
(* holds NULL (the empty tuple) or a one-element tuple with the value.     *)
(* Timestamps are seconds since the start of day 0; a 'YYYY-MM-DD          *)
(* HH:MM:SS' text compares as its number of seconds does.                  *)
(***************************************************************************)
EXTENDS Integers, Sequences, FiniteSets, TLC

VARIABLES tasks,      \* the rows of table tasks: id -> row
          seq,        \* sqlite_sequence of the AUTOINCREMENT key: highest id ever given
          now,        \* the wall clock, in seconds
          filter_by,  \* the "Filter" selectbox of the page
          edit_form,  \* id of the task whose edit form the last run rendered, 0 if none
          deleted,    \* history: ids removed by delete_task
          last        \* history: the last handler or store call, its input and outcome

vars == <<tasks, seq, now, filter_by, edit_form, deleted, last>>

----------------------------------------------------------------------------
(* Bounds *)

MaxTasks == 2      \* ids ever assigned (page, store, streak, sort, category models)
MaxRows == 4       \* ids ever assigned in the progress model
MaxDay == 2        \* the clock stops advancing after this day
MaxSec == 1        \* second ticks within a day

SecsPerDay == 86400

NULL == <<>>
Some(x) == <<x>>
Val(o) == o[1]

----------------------------------------------------------------------------
(* Text primitives: str.strip, str.lower, str.capitalize, `kw in txt` *)

UpperToLower ==
    ("A" :> "a") @@ ("B" :> "b") @@ ("C" :> "c") @@ ("D" :> "d") @@ ("E" :> "e") @@
    ("F" :> "f") @@ ("G" :> "g") @@ ("H" :> "h") @@ ("I" :> "i") @@ ("J" :> "j") @@
    ("K" :> "k") @@ ("L" :> "l") @@ ("M" :> "m") @@ ("N" :> "n") @@ ("O" :> "o") @@
    ("P" :> "p") @@ ("Q" :> "q") @@ ("R" :> "r") @@ ("S" :> "s") @@ ("T" :> "t") @@
    ("U" :> "u") @@ ("V" :> "v") @@ ("W" :> "w") @@ ("X" :> "x") @@ ("Y" :> "y") @@
    ("Z" :> "z")

LowerChar(c) == IF c \in DOMAIN UpperToLower THEN UpperToLower[c] ELSE c

UpperChar(c) ==
    IF \E u \in DOMAIN UpperToLower : UpperToLower[u] = c
    THEN CHOOSE u \in DOMAIN UpperToLower : UpperToLower[u] = c
    ELSE c

lower(txt) == [i \in 1..Len(txt) |-> LowerChar(txt[i])]

capitalize(txt) ==
    [i \in 1..Len(txt) |-> IF i = 1 THEN UpperChar(txt[i]) ELSE LowerChar(txt[i])]

IsSpace(c) == c = " "

RECURSIVE lstrip(_)
lstrip(txt) ==
    IF txt /= <<>> /\ IsSpace(Head(txt)) THEN lstrip(Tail(txt)) ELSE txt

RECURSIVE rstrip(_)
rstrip(txt) ==
    IF txt /= <<>> /\ IsSpace(txt[Len(txt)])
    THEN rstrip(SubSeq(txt, 1, Len(txt) - 1))
    ELSE txt

strip(txt) == rstrip(lstrip(txt))

\* Python's `kw in txt`
Contains(txt, kw) ==
    \E i \in 1..(Len(txt) - Len(kw) + 1) : SubSeq(txt, i, i + Len(kw) - 1) = kw

\* Python truthiness of a str
Truthy(txt) == txt /= <<>>

----------------------------------------------------------------------------
(* Category inference *)

KEYWORDS_TO_CATEGORY ==
    << [cat |-> <<"w", "o", "r", "k">>,
        keywords |->
          << <<"r", "e", "p", "o", "r", "t">>,
             <<"m", "e", "e", "t", "i", "n", "g">>,
             <<"c", "l", "i", "e", "n", "t">>,
             <<"d", "e", "p", "l", "o", "y">>,
             <<"d", "e", "b", "u", "g">>,
             <<"p", "r", "e", "s", "e", "n", "t", "a", "t", "i", "o", "n">>,
             <<"e", "m", "a", "i", "l">> >>],
       [cat |-> <<"s", "t", "u", "d", "y">>,
        keywords |->
          << <<"s", "t", "u", "d", "y">>,
             <<"r", "e", "v", "i", "s", "e">>,
             <<"e", "x", "a", "m">>,
             <<"a", "s", "s", "i", "g", "n", "m", "e", "n", "t">>,
             <<"h", "o", "m", "e", "w", "o", "r", "k">>,
             <<"r", "e", "a", "d">>,
             <<"p", "r", "a", "c", "t", "i", "c", "e">> >>],
       [cat |-> <<"h", "e", "a", "l", "t", "h">>,
        keywords |->
          << <<"d", "o", "c", "t", "o", "r">>,
             <<"e", "x", "e", "r", "c", "i", "s", "e">>,
             <<"g", "y", "m">>,
             <<"r", "u", "n">>,
             <<"w", "a", "l", "k">>,
             <<"y", "o", "g", "a">>,
             <<"m", "e", "d", "i", "t", "a", "t", "e">>,
             <<"s", "l", "e", "e", "p">> >>],
       [cat |-> <<"p", "e", "r", "s", "o", "n", "a", "l">>,
        keywords |->
          << <<"b", "u", "y">>,
             <<"c", "a", "l", "l">>,
             <<"r", "e", "m", "i", "n", "d", "e", "r">>,
             <<"b", "i", "r", "t", "h", "d", "a", "y">>,
             <<"p", "a", "y">>,
             <<"i", "n", "v", "o", "i", "c", "e">>,
             <<"p", "l", "a", "n">>,
             <<"t", "r", "a", "v", "e", "l">> >>] >>

Other == <<"O", "t", "h", "e", "r">>
Auto == <<"A", "u", "t", "o">>

\* the inner loop: `for kw in keywords: if kw in txt`
AnyKeyword(keywords, txt) ==
    \E k \in 1..Len(keywords) : Contains(txt, keywords[k])

\* the outer loop from entry i of the table on
RECURSIVE categorize_from(_, _)
categorize_from(i, txt) ==
    IF i > Len(KEYWORDS_TO_CATEGORY) THEN Other
    ELSE IF AnyKeyword(KEYWORDS_TO_CATEGORY[i].keywords, txt)
         THEN capitalize(KEYWORDS_TO_CATEGORY[i].cat)
         ELSE categorize_from(i + 1, txt)

\* variant: the category with the most keywords in the text wins
auto_categorize_MostMatches(text) ==
    LET txt == lower(text)
        count(i) == Cardinality({k \in DOMAIN KEYWORDS_TO_CATEGORY[i].keywords :
                                   Contains(txt, KEYWORDS_TO_CATEGORY[i].keywords[k])})
        best == CHOOSE i \in DOMAIN KEYWORDS_TO_CATEGORY :
                    \A j \in DOMAIN KEYWORDS_TO_CATEGORY :
                        count(i) > count(j) \/ (count(i) = count(j) /\ i <= j)
    IN  IF count(best) = 0 THEN Other ELSE capitalize(KEYWORDS_TO_CATEGORY[best].cat)

auto_categorize(text) == categorize_from(1, lower(text))

----------------------------------------------------------------------------
(* Store helpers *)

date(ts) == ts \div SecsPerDay

Row(id, title, description, category, priority, due_date, created) ==
    [id |-> id, title |-> title, description |-> description,
     category |-> category, priority |-> priority, due_date |-> due_date,
     completed |-> 0, created_at |-> created, completed_at |-> NULL]

\* variant: a key without AUTOINCREMENT, one more than the highest key present
add_task_MaxRowid(tbl, s, title, description, category, priority, due_date, clock) ==
    LET top == IF DOMAIN tbl = {} THEN 0
               ELSE CHOOSE m \in DOMAIN tbl : \A id \in DOMAIN tbl : id <= m
    IN  [id \in DOMAIN tbl \cup {top + 1} |->
            IF id = top + 1
            THEN Row(top + 1, title, description, category, priority, due_date, clock)
            ELSE tbl[id]]

\* INSERT INTO tasks (title, description, category, priority, due_date):
\* the key is sqlite_sequence + 1, completed and completed_at take their
\* defaults, created_at is datetime('now')
add_task(tbl, s, title, description, category, priority, due_date, clock) ==
    [id \in DOMAIN tbl \cup {s + 1} |->
        IF id = s + 1
        THEN Row(s + 1, title, description, category, priority, due_date, clock)
        ELSE tbl[id]]

\* UPDATE tasks SET k = v, ... WHERE id = ?: rows with the id take the
\* supplied columns, no row otherwise
update_task(tbl, task_id, kwargs) ==
    [id \in DOMAIN tbl |->
        IF id = task_id
        THEN [k \in DOMAIN tbl[id] |->
                 IF k \in DOMAIN kwargs THEN kwargs[k] ELSE tbl[id][k]]
        ELSE tbl[id]]

\* DELETE FROM tasks WHERE id = ?
delete_task(tbl, task_id) ==
    [id \in DOMAIN tbl \ {task_id} |-> tbl[id]]

\* the WHERE clause of fetch_tasks
Matches(row, f) ==
    IF f = "pending" THEN row.completed = 0
    ELSE IF f = "done" THEN row.completed = 1
    ELSE TRUE

\* the ORDER BY clause of fetch_tasks: row a may come before row b.
\* NULL due dates compare equal to each other and come last.
OrderedBefore(sort_by, a, b) ==
    IF sort_by = "due_asc"
    THEN \/ a.due_date /= NULL /\ b.due_date = NULL
         \/ a.due_date = NULL /\ b.due_date = NULL
         \/ a.due_date /= NULL /\ b.due_date /= NULL
            /\ Val(a.due_date) <= Val(b.due_date)
    ELSE IF sort_by = "priority_asc" THEN a.priority <= b.priority
    ELSE IF sort_by = "created_asc" THEN a.created_at <= b.created_at
    ELSE a.created_at >= b.created_at

Arrangements(S) ==
    {s \in [1..Cardinality(S) -> S] : \A i, j \in DOMAIN s : s[i] = s[j] => i = j}

\* The row lists the query may return.  ORDER BY names the sort column only;
\* SQL leaves the relative order of rows with equal sort keys open, so every
\* arrangement that respects the sort column is a possible result.
fetch_tasks(tbl, f, sort_by) ==
    LET ids == {id \in DOMAIN tbl : Matches(tbl[id], f)}
    IN  { [i \in DOMAIN s |-> tbl[s[i]]] :
            s \in {a \in Arrangements(ids) :
                     \A i, j \in DOMAIN a :
                        i < j => OrderedBefore(sort_by, tbl[a[i]], tbl[a[j]])} }

Filters == {"all", "pending", "done"}
Sorts == {"created_desc", "due_asc", "priority_asc", "created_asc"}

\* the external date parser: no result, or some future day
DateparserOutcomes == {NULL} \cup {Some(d * SecsPerDay) : d \in 1..MaxDay}

parse_due_date(text) ==
    IF ~Truthy(text) THEN {NULL} ELSE DateparserOutcomes

----------------------------------------------------------------------------
(* Derived metrics *)

\* int(done / total * 100): the quotient truncated.  The float product
\* equals the exact one truncated for every total up to 12.
calc_progress(rows) ==
    IF rows = <<>> THEN 0
    ELSE LET total == Len(rows)
             done == Cardinality({i \in DOMAIN rows : rows[i].completed /= 0})
         IN  (done * 100) \div total

\* SELECT DISTINCT date(completed_at) ... WHERE completed = 1 AND
\* completed_at IS NOT NULL
completed_dates(tbl) ==
    {date(Val(tbl[id].completed_at)) :
        id \in {i \in DOMAIN tbl : tbl[i].completed = 1 /\ tbl[i].completed_at /= NULL}}

\* while curr in completed_dates: streak += 1; curr -= 1 day
RECURSIVE streak_loop(_, _, _)
streak_loop(dates, curr, streak) ==
    IF curr \in dates THEN streak_loop(dates, curr - 1, streak + 1) ELSE streak

\* variant: a day without completions so far does not end the streak
calc_streak_FromYesterday(tbl, clock) ==
    IF date(clock) \in completed_dates(tbl)
    THEN streak_loop(completed_dates(tbl), date(clock), 0)
    ELSE streak_loop(completed_dates(tbl), date(clock) - 1, 0)

calc_streak(tbl, clock) == streak_loop(completed_dates(tbl), date(clock), 0)

----------------------------------------------------------------------------
(* Inputs *)

TxtEmpty == <<>>
TxtBlank == <<" ", " ">>
TxtGymRunReport ==
    <<" ", "G", "y", "m", " ", "r", "u", "n", " ", "r", "e", "p", "o", "r", "t", " ">>
TxtREAD == <<"R", "E", "A", "D">>
TxtNap == <<"N", "a", "p">>
TxtPay == <<"P", "a", "y">>
TxtCall == <<"c", "a", "l", "l">>
TxtFri == <<"f", "r", "i">>
Work == <<"W", "o", "r", "k">>
Personal == <<"P", "e", "r", "s", "o", "n", "a", "l">>

\* fillings of the "Add a Task" form
PlainInput ==
    [raw_text |-> TxtNap, title_manual |-> TxtEmpty, desc_manual |-> TxtEmpty,
     cat_choice |-> Other, priority_choice |-> 3, due_input |-> TxtEmpty]

BlankInput ==
    [raw_text |-> TxtBlank, title_manual |-> TxtEmpty, desc_manual |-> TxtCall,
     cat_choice |-> Work, priority_choice |-> 3, due_input |-> TxtEmpty]

PageInputs == {PlainInput, BlankInput}

\* fillings that differ in priority and due date
SortInputs ==
    { PlainInput,
      [raw_text |-> TxtEmpty, title_manual |-> TxtPay, desc_manual |-> TxtEmpty,
       cat_choice |-> Other, priority_choice |-> 1, due_input |-> TxtFri] }

\* fillings that differ in the text the category is inferred from
CatInputs ==
    { [raw_text |-> TxtGymRunReport, title_manual |-> TxtEmpty, desc_manual |-> TxtEmpty,
       cat_choice |-> Auto, priority_choice |-> 3, due_input |-> TxtEmpty],
      [raw_text |-> TxtEmpty, title_manual |-> TxtREAD, desc_manual |-> TxtEmpty,
       cat_choice |-> Auto, priority_choice |-> 3, due_input |-> TxtEmpty],
      [raw_text |-> TxtNap, title_manual |-> TxtBlank, desc_manual |-> TxtBlank,
       cat_choice |-> Auto, priority_choice |-> 3, due_input |-> TxtEmpty],
      [raw_text |-> TxtEmpty, title_manual |-> TxtPay, desc_manual |-> TxtGymRunReport,
       cat_choice |-> Auto, priority_choice |-> 3, due_input |-> TxtEmpty],
      [raw_text |-> TxtNap, title_manual |-> TxtEmpty, desc_manual |-> TxtCall,
       cat_choice |-> Auto, priority_choice |-> 3, due_input |-> TxtEmpty],
      [raw_text |-> TxtREAD, title_manual |-> TxtEmpty, desc_manual |-> TxtEmpty,
       cat_choice |-> Work, priority_choice |-> 3, due_input |-> TxtEmpty] }

\* fillings of the edit form
EditInputs ==
    { [new_title |-> TxtPay, new_desc |-> TxtCall, new_cat |-> Personal,
       new_pr |-> 5, new_due |-> TxtEmpty],
      [new_title |-> TxtBlank, new_desc |-> TxtEmpty, new_cat |-> Work,
       new_pr |-> 1, new_due |-> TxtEmpty] }

\* keyword arguments of direct update_task calls
UpdateArgs(clock) ==
    { [completed |-> 1],
      [completed |-> 0],
      [completed |-> 1, completed_at |-> Some(clock)],
      [completed |-> 0, completed_at |-> NULL],
      [title |-> TxtBlank],
      [title |-> TxtPay, priority |-> 5] }

Event(op, tid, args, before, result, text) ==
    [op |-> op, tid |-> tid, args |-> args, before |-> before,
     result |-> result, text |-> text]

----------------------------------------------------------------------------
(* Initial state: init_db() on a fresh database file, first page run *)

Init ==
    /\ tasks = <<>>
    /\ seq = 0
    /\ now = 0
    /\ filter_by = "all"
    /\ edit_form = 0
    /\ deleted = {}
    /\ last = Event("init", 0, NULL, NULL, "returned", NULL)

----------------------------------------------------------------------------
(* Page handlers.  Every interaction re-executes the script; a button reads *)
(* True only in the run its own click triggered.                            *)

\* ids of the task cards the page shows: fetch_tasks(filter_by, sort_by)
Shown == {id \in DOMAIN tasks : Matches(tasks[id], filter_by)}

\* "Add Task" submit
SubmitAdd(inp, cap) ==
    LET title == IF Truthy(strip(inp.title_manual)) THEN Some(strip(inp.title_manual))
                 ELSE IF Truthy(strip(inp.raw_text)) THEN Some(strip(inp.raw_text))
                 ELSE NULL
    IN  /\ edit_form' = 0
        /\ UNCHANGED <<now, filter_by, deleted>>
        /\ IF title = NULL
           THEN /\ last' = Event("add", 0, inp, NULL, "warning", NULL)
                /\ UNCHANGED <<tasks, seq>>
           ELSE LET text == Val(title) \o <<" ">> \o inp.desc_manual
                    category == IF inp.cat_choice = Auto
                                THEN auto_categorize(text)
                                ELSE inp.cat_choice
                    description == IF Truthy(strip(inp.desc_manual))
                                   THEN Some(strip(inp.desc_manual))
                                   ELSE NULL
                IN  /\ seq < cap
                    /\ \E due_iso \in (IF Truthy(strip(inp.due_input))
                                       THEN parse_due_date(inp.due_input)
                                       ELSE {NULL}) :
                          tasks' = add_task(tasks, seq, Val(title), description,
                                            category, inp.priority_choice, due_iso, now)
                    /\ seq' = seq + 1
                    /\ last' = Event("add", seq + 1, inp, NULL, "added",
                                     IF inp.cat_choice = Auto THEN Some(text) ELSE NULL)

\* variant: un-checking writes completed only
ToggleCheckbox_KeepsStamp(tid) ==
    /\ tid \in Shown
    /\ LET completed == tasks[tid].completed /= 0
           checked == ~completed
       IN  /\ tasks' = IF checked
                       THEN update_task(tasks, tid,
                                [completed |-> 1, completed_at |-> Some(now)])
                       ELSE update_task(tasks, tid, [completed |-> 0])
           /\ last' = Event("toggle", tid, checked, Some(tasks[tid]), "returned", NULL)
    /\ edit_form' = 0
    /\ UNCHANGED <<seq, now, filter_by, deleted>>

\* the completion checkbox of a card is clicked: checked != completed
ToggleCheckbox(tid) ==
    /\ tid \in Shown
    /\ LET completed == tasks[tid].completed /= 0
           checked == ~completed
       IN  /\ tasks' = IF checked
                       THEN update_task(tasks, tid,
                                [completed |-> 1, completed_at |-> Some(now)])
                       ELSE update_task(tasks, tid,
                                [completed |-> 0, completed_at |-> NULL])
           /\ last' = Event("toggle", tid, checked, Some(tasks[tid]), "returned", NULL)
    /\ edit_form' = 0
    /\ UNCHANGED <<seq, now, filter_by, deleted>>

\* the Edit button of a card: this run renders the edit form inside the
\* `if st.button("Edit")` block; the form's Save reads False in this run
ClickEdit(tid) ==
    /\ tid \in Shown
    /\ edit_form' = tid
    /\ last' = Event("edit", tid, NULL, Some(tasks[tid]), "returned", NULL)
    /\ UNCHANGED <<tasks, seq, now, filter_by, deleted>>

\* Save of the rendered edit form: the click triggers a new run, in which
\* st.button("Edit") reads False, so the form block, and with it the
\* `if save:` branch and its update_task call, is not executed
ClickSave(tid, e) ==
    /\ edit_form = tid
    /\ tid \in Shown
    /\ edit_form' = 0
    /\ last' = Event("save", tid, e, Some(tasks[tid]), "returned", NULL)
    /\ UNCHANGED <<tasks, seq, now, filter_by, deleted>>

\* the Delete button of a card
ClickDelete(tid) ==
    /\ tid \in Shown
    /\ tasks' = delete_task(tasks, tid)
    /\ deleted' = deleted \cup {tid}
    /\ edit_form' = 0
    /\ last' = Event("delete", tid, NULL, Some(tasks[tid]), "returned", NULL)
    /\ UNCHANGED <<seq, now, filter_by>>

\* the Filter selectbox
SelectFilter(f) ==
    /\ f /= filter_by
    /\ filter_by' = f
    /\ edit_form' = 0
    /\ last' = Event("filter", 0, f, NULL, "returned", NULL)
    /\ UNCHANGED <<tasks, seq, now, deleted>>

\* time passes while the page is displayed
TickSecond ==
    /\ now % SecsPerDay < MaxSec
    /\ now' = now + 1
    /\ UNCHANGED <<tasks, seq, filter_by, edit_form, deleted, last>>

TickDay ==
    /\ date(now) < MaxDay
    /\ now' = now + SecsPerDay
    /\ UNCHANGED <<tasks, seq, filter_by, edit_form, deleted, last>>

----------------------------------------------------------------------------
(* Direct calls of the store helpers *)

\* update_task(task_id, **kwargs) called with any id
CallUpdate(task_id, kwargs) ==
    /\ tasks' = update_task(tasks, task_id, kwargs)
    /\ last' = Event("update", task_id, kwargs,
                     IF task_id \in DOMAIN tasks THEN Some(tasks[task_id]) ELSE NULL,
                     "returned", NULL)
    /\ UNCHANGED <<seq, now, filter_by, edit_form, deleted>>

\* delete_task(task_id) called with any id
CallDelete(task_id) ==
    /\ tasks' = delete_task(tasks, task_id)
    /\ deleted' = IF task_id \in DOMAIN tasks THEN deleted \cup {task_id} ELSE deleted
    /\ last' = Event("delete", task_id, NULL,
                     IF task_id \in DOMAIN tasks THEN Some(tasks[task_id]) ELSE NULL,
                     "returned", NULL)
    /\ UNCHANGED <<seq, now, filter_by, edit_form>>

----------------------------------------------------------------------------
(* Specifications *)

\* the page model: the user's interactions with the running app
PageAdd == \E inp \in PageInputs : SubmitAdd(inp, MaxTasks)
PageToggle == \E tid \in DOMAIN tasks : ToggleCheckbox(tid)
PageEdit == \E tid \in DOMAIN tasks : ClickEdit(tid)
PageSave == \E tid \in DOMAIN tasks : \E e \in EditInputs : ClickSave(tid, e)
PageDelete == \E tid \in DOMAIN tasks : ClickDelete(tid)
PageFilter == \E f \in Filters : SelectFilter(f)
PageTick == TickDay

Next ==
    \/ PageAdd
    \/ PageToggle
    \/ PageEdit
    \/ PageSave
    \/ PageDelete
    \/ PageFilter
    \/ PageTick

Spec == Init /\ [][Next]_vars

\* the store model: the add form and direct calls of the store helpers
StoreAdd == \E inp \in PageInputs : SubmitAdd(inp, MaxTasks)
StoreUpdate == \E task_id \in 1..(MaxTasks + 1) : \E kwargs \in UpdateArgs(now) :
                   CallUpdate(task_id, kwargs)
StoreDelete == \E task_id \in 1..(MaxTasks + 1) : CallDelete(task_id)

StoreNext ==
    \/ StoreAdd
    \/ StoreUpdate
    \/ StoreDelete

StoreSpec == Init /\ [][StoreNext]_vars

\* the progress model: many plain tasks, completed and deleted at will
RowsAdd == SubmitAdd(PlainInput, MaxRows)
RowsToggle == \E tid \in DOMAIN tasks : ToggleCheckbox(tid)
RowsDelete == \E tid \in DOMAIN tasks : ClickDelete(tid)

RowsNext ==
    \/ RowsAdd
    \/ RowsToggle
    \/ RowsDelete

RowsSpec == Init /\ [][RowsNext]_vars

\* the streak model: plain tasks completed on different days
StreakAdd == SubmitAdd(PlainInput, MaxTasks)
StreakToggle == \E tid \in DOMAIN tasks : ToggleCheckbox(tid)
StreakDelete == \E tid \in DOMAIN tasks : ClickDelete(tid)
StreakTick == TickDay

StreakNext ==
    \/ StreakAdd
    \/ StreakToggle
    \/ StreakDelete
    \/ StreakTick

StreakSpec == Init /\ [][StreakNext]_vars

\* the sort model: tasks that differ or agree in priority, due date and
\* creation second
SortAdd == \E inp \in SortInputs : SubmitAdd(inp, MaxTasks)
SortToggle == \E tid \in DOMAIN tasks : ToggleCheckbox(tid)
SortDelete == \E tid \in DOMAIN tasks : ClickDelete(tid)
SortTick == TickSecond

SortNext ==
    \/ SortAdd
    \/ SortToggle
    \/ SortDelete
    \/ SortTick

SortSpec == Init /\ [][SortNext]_vars

\* the category model: tasks added with the category inferred from the text
CatAdd == \E inp \in CatInputs : SubmitAdd(inp, MaxTasks)
CatDelete == \E tid \in DOMAIN tasks : ClickDelete(tid)

CatNext ==
    \/ CatAdd
    \/ CatDelete

CatSpec == Init /\ [][CatNext]_vars

----------------------------------------------------------------------------
(* Properties *)

Study == <<"S", "t", "u", "d", "y">>
Health == <<"H", "e", "a", "l", "t", "h">>
DeclaredOrder == <<Work, Study, Health, Personal>>

\* C1: in every state the page's actions reach, every stored task has
\* completed_at non-null if and only if completed is true.
C1_StampIffCompleted ==
    \A id \in DOMAIN tasks :
        (tasks[id].completed_at /= NULL) <=> (tasks[id].completed = 1)

\* a task was completed and then un-completed again, another is still completed
C1_Witness ==
    /\ last.op = "toggle"
    /\ last.args = FALSE
    /\ Val(last.before).completed_at /= NULL
    /\ tasks[last.tid].completed = 0
    /\ \E id \in DOMAIN tasks : tasks[id].completed = 1

\* C2: update with an id that is not in the store raises NotFoundError to
\* the caller and leaves every stored task unchanged.
C2_UnknownIdRaises ==
    (last.op = "update" /\ last.before = NULL) => last.result = "NotFoundError"

\* C3: no operation stores a task whose title is empty after trimming.
C3_TitleNeverBlank ==
    \A id \in DOMAIN tasks : strip(tasks[id].title) /= <<>>

\* C4: an update that moves completed from false to true without a
\* completed_at leaves completed_at non-null; an update that moves completed
\* from true to false leaves completed_at null, whatever the caller supplied.
C4_StoreKeepsStamp ==
    (last.op = "update" /\ last.before /= NULL /\ "completed" \in DOMAIN last.args) =>
        LET before == Val(last.before)
            row == tasks[last.tid]
        IN  /\ (before.completed = 0 /\ last.args.completed = 1
                /\ "completed_at" \notin DOMAIN last.args)
               => row.completed_at /= NULL
            /\ (before.completed = 1 /\ last.args.completed = 0)
               => row.completed_at = NULL

\* the order the sort contract fixes: row a comes before row b
ContractBefore(sort_by, a, b) ==
    IF sort_by = "due_asc"
    THEN \/ a.due_date /= NULL /\ b.due_date = NULL
         \/ a.due_date /= NULL /\ b.due_date /= NULL
            /\ Val(a.due_date) < Val(b.due_date)
         \/ (a.due_date = NULL) = (b.due_date = NULL)
            /\ (a.due_date = NULL \/ Val(a.due_date) = Val(b.due_date))
            /\ a.id < b.id
    ELSE IF sort_by = "priority_asc"
    THEN \/ a.priority < b.priority
         \/ a.priority = b.priority /\ a.created_at <= b.created_at
    ELSE IF sort_by = "created_asc"
    THEN \/ a.created_at < b.created_at
         \/ a.created_at = b.created_at /\ a.id < b.id
    ELSE \/ a.created_at > b.created_at
         \/ a.created_at = b.created_at /\ a.id < b.id

RoundDiv(n, d) == (2 * n + d) \div (2 * d)

\* C6: progress is round(100 * completed_count / total_count), 0 for the
\* empty list.
C6_ProgressRounds ==
    \A rows \in fetch_tasks(tasks, "all", "created_desc") :
        LET done == Cardinality({i \in DOMAIN rows : rows[i].completed = 1})
        IN  calc_progress(rows) =
                IF Len(rows) = 0 THEN 0 ELSE RoundDiv(100 * done, Len(rows))

\* some currently completed task was completed on day d
CompletedOn(d) ==
    \E id \in DOMAIN tasks :
        /\ tasks[id].completed = 1
        /\ tasks[id].completed_at /= NULL
        /\ date(Val(tasks[id].completed_at)) = d

\* C7: streak is the largest n such that each of the days today, today-1,
\* ..., today-(n-1) has a completion of a currently completed task.
C7_StreakIsRunEndingToday ==
    LET n == calc_streak(tasks, now)
        today == date(now)
    IN  /\ n >= 0
        /\ \A k \in 0..(n - 1) : CompletedOn(today - k)
        /\ ~CompletedOn(today - n)

\* completions today and two days ago, none yesterday: the streak is 1
C7_Witness ==
    /\ CompletedOn(date(now))
    /\ ~CompletedOn(date(now) - 1)
    /\ CompletedOn(date(now) - 2)
    /\ calc_streak(tasks, now) = 1

\* entry i of the keyword table has a keyword inside the lower-cased text
CategoryHit(i, text) ==
    \E k \in DOMAIN KEYWORDS_TO_CATEGORY[i].keywords :
        Contains(lower(text), KEYWORDS_TO_CATEGORY[i].keywords[k])

\* C8: the inferred category is the first of Work, Study, Health, Personal
\* with a keyword inside the lower-cased text, and "Other" exactly when no
\* keyword of any category occurs.
C8_FirstCategoryInOrder ==
    (last.op = "add" /\ last.text /= NULL) =>
        LET text == Val(last.text)
            got == tasks[last.tid].category
            hits == {i \in DOMAIN DeclaredOrder : CategoryHit(i, text)}
        IN  /\ (got = Other) <=> (hits = {})
            /\ hits /= {} =>
                 \E i \in hits : (\A j \in hits : i <= j) /\ got = DeclaredOrder[i]

\* a text with one Work keyword and two Health keywords was inferred as Work
C8_Witness ==
    /\ last.op = "add"
    /\ last.text /= NULL
    /\ CategoryHit(1, Val(last.text))
    /\ Cardinality({k \in DOMAIN KEYWORDS_TO_CATEGORY[3].keywords :
                      Contains(lower(Val(last.text)),
                               KEYWORDS_TO_CATEGORY[3].keywords[k])}) = 2
    /\ tasks[last.tid].category = Work

\* C9: a deleted id is never returned by a later list call, under any filter
\* or sort, and is never given to a task added later.
C9_DeletedIdNeverListed ==
    \A id \in deleted :
        /\ id <= seq
        /\ \A f \in Filters : \A s \in Sorts : \A rows \in fetch_tasks(tasks, f, s) :
              \A i \in DOMAIN rows : rows[i].id /= id

\* the task holding the highest id was deleted, and a task was added after it
C9_Witness ==
    /\ last.op = "add"
    /\ last.result = "added"
    /\ last.tid - 1 \in deleted
    /\ last.tid \in DOMAIN tasks
    /\ \A id \in DOMAIN tasks : id >= last.tid

\* C10: after Edit and then Save of the form shown for a task, the task's
\* title, description, category, priority and due date are the submitted
\* values and its id, created_at, completed and completed_at are unchanged.
C10_SaveStoresSubmitted ==
    last.op = "save" =>
        LET e == last.args
            before == Val(last.before)
            row == tasks[last.tid]
        IN  /\ row.title = e.new_title
            /\ row.description = e.new_desc
            /\ row.category = e.new_cat
            /\ row.priority = e.new_pr
            /\ row.due_date \in (IF Truthy(strip(e.new_due))
                                 THEN parse_due_date(e.new_due) ELSE {NULL})
            /\ row.id = before.id
            /\ row.created_at = before.created_at
            /\ row.completed = before.completed
            /\ row.completed_at = before.completed_at

====
